---- MODULE Spec2Model ----
(***************************************************************************)
(* Model of the cw-stream contract: the stream ledger (STREAMS), the       *)
(* sequence counter (STREAM_SEQ), the Config singleton, and the two        *)
(* execute entry points (Receive -> try_create_stream, Withdraw ->         *)
(* try_withdraw), which the host invokes one at a time at non-decreasing   *)
(* block times.  A failed or panicking invocation leaves no write behind.  *)
(***************************************************************************)
EXTENDS Integers, Sequences, FiniteSets, TLC

\* ---------------------------------------------------------------- bounds
\* Largest block time, start_time and end_time of the model, in milliseconds.
MaxTime == 2

\* ------------------------------------------------------ program constants
\* env.block.time.nanos() / 1_000_000
NANOS_PER_MILLI == 1000000

\* Largest value of Uint128, the type of the sequence counter and of the
\* token amounts.  The width is scaled down from 128 bits so that the
\* counter can reach the top of its range; the checked arithmetic of the
\* type (checked_add, and the panicking -, /, *, +=) is kept.
Uint128Max == 2

VARIABLES
    config,   \* CONFIG: [owner, cw20_addr]
    seq,      \* STREAM_SEQ
    streams,  \* STREAMS: function from identifier to Stream
    time,     \* env.block.time of the current block, in nanoseconds
    last,     \* the invocation handled last in this block: request, result,
              \* emitted messages, and the persisted state it started from
    paid      \* per identifier, the sum of the transfer amounts emitted

vars == <<config, seq, streams, time, last, paid>>

\* ------------------------------------------------------------- records
\* Every record constructor lists its fields in the order in which the
\* field names first appear in this module, the order TLC keeps them in.

\* The record of an invocation, with the persisted state it started from.
Outcome(op, id, sender, req, res, msgs) ==
    [op |-> op, id |-> id, sender |-> sender, req |-> req, res |-> res,
     msgs |-> msgs, pre |-> [config |-> config, seq |-> seq, streams |-> streams]]

\* A slip that initialises claimed_amount with the deposit.
new_stream_claimed(req) ==
    [owner |-> req.owner, recipient |-> req.recipient, amount |-> req.amount,
     claimed_amount |-> req.amount, start_time |-> req.start_time,
     end_time |-> req.end_time]

new_stream(req) ==
    [owner |-> req.owner, recipient |-> req.recipient, amount |-> req.amount,
     claimed_amount |-> 0, start_time |-> req.start_time,
     end_time |-> req.end_time]

\* The creation request of an invocation that carries none.
NoRequest ==
    [owner |-> "", recipient |-> "", amount |-> 0, start_time |-> 0, end_time |-> 0]

\* cw20.call(Cw20ExecuteMsg::Transfer { recipient, amount })
Transfer(recipient, amount) == [recipient |-> recipient, amount |-> amount]

\* --------------------------------------------------------------- inputs
\* Addresses the api's addr_validate accepts, and one it rejects.
ValidAddrs == {"cw20", "creator", "alice", "bob"}
BadAddr == "x"
\* info.sender, wrapped.sender and recipient of a deposit notification.
Parties ==
    { [sender |-> "cw20",  owner |-> "alice", recipient |-> "bob"],
      [sender |-> "alice", owner |-> "alice", recipient |-> "bob"],
      [sender |-> "cw20",  owner |-> "alice", recipient |-> BadAddr] }
\* info.sender of a withdraw: the contract owner, a stream owner, a recipient.
Requesters == {"creator", "alice", "bob"}
Amounts == 0..Uint128Max
Times == 0..MaxTime

\* A panic (Uint128 arithmetic that overflows, underflows or divides by
\* zero) aborts the invocation; the marker lies outside the Uint128 range.
PANIC == -1

\* ------------------------------------------------------------ pure parts
addr_validate(s) == s \in ValidAddrs

block_time(nanos) == nanos \div NANOS_PER_MILLI

\* Uint128 arithmetic: Sub, Div, Mul and AddAssign panic instead of wrapping.
u128_sub(a, b) == IF a = PANIC \/ b = PANIC \/ a < b THEN PANIC ELSE a - b
u128_div(a, b) == IF a = PANIC \/ b = PANIC \/ b = 0 THEN PANIC ELSE a \div b
u128_mul(a, b) == IF a = PANIC \/ b = PANIC \/ a * b > Uint128Max THEN PANIC ELSE a * b
u128_add(a, b) == IF a = PANIC \/ b = PANIC \/ a + b > Uint128Max THEN PANIC ELSE a + b

\* ((block_time - start_time) / (end_time - start_time) * amount) - claimed_amount
claimable_amount(stream, bt) ==
    u128_sub(u128_mul(u128_div(u128_sub(bt, stream.start_time),
                               u128_sub(stream.end_time, stream.start_time)),
                      stream.amount),
             stream.claimed_amount)

\* A slip that authorizes the depositor instead of the recipient.
not_recipient_owner(stream, sender) == stream.owner # sender

\* if stream.recipient != info.sender
not_recipient(stream, sender) == stream.recipient # sender

\* An off-by-one slip: a stream counts as fully claimed only past amount.
fully_claimed_strict(stream) == stream.claimed_amount > stream.amount

\* if stream.claimed_amount >= stream.amount
fully_claimed(stream) == stream.claimed_amount >= stream.amount

\* The comparison the other way round: rejects before the start only.
stream_not_started_flipped(stream, bt) == bt < stream.start_time

\* if stream.start_time < block_time
stream_not_started(stream, bt) == stream.start_time < bt

\* if claimable_amount < Uint128::new(0)
no_funds(claimable) == claimable < 0

\* A slip that tests the claimed amount before the requester.
withdraw_result_reordered(id, sender, bt) ==
    IF id \notin DOMAIN streams THEN [res |-> "NotFound", amount |-> 0]
    ELSE LET stream == streams[id] IN
    IF fully_claimed(stream) THEN [res |-> "StreamFullyClaimed", amount |-> 0]
    ELSE IF not_recipient(stream, sender) THEN [res |-> "NotStreamRecipient", amount |-> 0]
    ELSE IF stream_not_started(stream, bt) THEN [res |-> "StreamNotStarted", amount |-> 0]
    ELSE LET c == claimable_amount(stream, bt) IN
    IF c = PANIC THEN [res |-> "Panic", amount |-> 0]
    ELSE IF no_funds(c) THEN [res |-> "NoFundsToClaim", amount |-> 0]
    ELSE IF u128_add(stream.claimed_amount, c) = PANIC THEN [res |-> "Panic", amount |-> 0]
    ELSE [res |-> "Ok", amount |-> c]

\* The result of try_withdraw: the error, or Ok with the claimable amount.
withdraw_result(id, sender, bt) ==
    IF id \notin DOMAIN streams THEN [res |-> "NotFound", amount |-> 0]
    ELSE LET stream == streams[id] IN
    IF not_recipient(stream, sender) THEN [res |-> "NotStreamRecipient", amount |-> 0]
    ELSE IF fully_claimed(stream) THEN [res |-> "StreamFullyClaimed", amount |-> 0]
    ELSE IF stream_not_started(stream, bt) THEN [res |-> "StreamNotStarted", amount |-> 0]
    ELSE LET c == claimable_amount(stream, bt) IN
    IF c = PANIC THEN [res |-> "Panic", amount |-> 0]
    ELSE IF no_funds(c) THEN [res |-> "NoFundsToClaim", amount |-> 0]
    ELSE IF u128_add(stream.claimed_amount, c) = PANIC THEN [res |-> "Panic", amount |-> 0]
    ELSE [res |-> "Ok", amount |-> c]

\* A slip that transfers the deposit instead of the claimable amount.
transfer_msg_deposit(stream, claimable) ==
    Transfer(stream.recipient, stream.amount)

\* cw20.call(Transfer { recipient: stream.recipient, amount: claimable_amount })
transfer_msg(stream, claimable) == Transfer(stream.recipient, claimable)

try_withdraw(id, sender) ==
    LET r == withdraw_result(id, sender, block_time(time))
        msgs == IF r.res = "Ok" THEN <<transfer_msg(streams[id], r.amount)>>
                                ELSE <<>>
    IN
    /\ streams' = IF r.res = "Ok"
                  THEN [streams EXCEPT ![id].claimed_amount = @ + r.amount]
                  ELSE streams
    /\ last' = Outcome("withdraw", id, sender, NoRequest, r.res, msgs)
    /\ paid' = IF r.res = "Ok"
               THEN [paid EXCEPT ![id] = @ + msgs[1].amount]
               ELSE paid
    /\ UNCHANGED <<config, seq, time>>

\* The comparison the other way round.
invalid_window_reversed(req) == req.start_time < req.end_time

\* if start_time > end_time
invalid_window(req) == req.start_time > req.end_time

\* A slip that compares the end of the window with the block time.
start_in_past_end(req, bt) == req.end_time < bt

\* if start_time < block_time
start_in_past(req, bt) == req.start_time < bt

\* A slip that increments the counter unchecked.
create_result_unchecked(req, bt) ==
    IF invalid_window(req) THEN "InvalidStartTime"
    ELSE IF start_in_past(req, bt) THEN "InvalidStartTime"
    ELSE IF ~addr_validate(req.owner) THEN "GenericErr"
    ELSE IF ~addr_validate(req.recipient) THEN "GenericErr"
    ELSE "Ok"

\* The checks of a creation, in the order of the code; the last one is
\* save_stream's checked_add.
create_result(req, bt) ==
    IF invalid_window(req) THEN "InvalidStartTime"
    ELSE IF start_in_past(req, bt) THEN "InvalidStartTime"
    ELSE IF ~addr_validate(req.owner) THEN "GenericErr"
    ELSE IF ~addr_validate(req.recipient) THEN "GenericErr"
    ELSE IF seq + 1 > Uint128Max THEN "Overflow"
    ELSE "Ok"

\* A slip that stores the record under the identifier loaded, not the
\* incremented one.
save_stream_old_id(stream) ==
    LET id == seq IN
    /\ seq' = id + 1
    /\ streams' = [k \in DOMAIN streams \cup {id} |->
                      IF k = id THEN stream ELSE streams[k]]

\* A slip that does not persist the incremented counter.
save_stream_no_seq(stream) ==
    LET id == seq + 1 IN
    /\ seq' = seq
    /\ streams' = [k \in DOMAIN streams \cup {id} |->
                      IF k = id THEN stream ELSE streams[k]]

\* A slip that keeps the ledger in a single item instead of a map.
save_stream_item(stream) ==
    LET id == seq + 1 IN
    /\ seq' = id
    /\ streams' = [k \in {id} |-> stream]

save_stream(stream) ==
    LET id == seq + 1 IN
    /\ seq' = id
    /\ streams' = [k \in DOMAIN streams \cup {id} |->
                      IF k = id THEN stream ELSE streams[k]]

\* What the record of a creation keeps of its request: a rejected request
\* is kept without its amount, which no check reads.
recorded(req, res) == IF res = "Ok" THEN req ELSE [req EXCEPT !.amount = 0]

\* A slip that validates the addresses after the record is saved.
try_create_stream_late(sender, req) ==
    LET res == create_result(req, block_time(time)) IN
    /\ IF res = "Ok" \/ (res = "GenericErr" /\ seq + 1 <= Uint128Max)
       THEN save_stream(new_stream(req))
       ELSE UNCHANGED <<seq, streams>>
    /\ last' = Outcome("create", IF res = "Ok" THEN seq + 1 ELSE 0, sender,
                       recorded(req, res), res, <<>>)
    /\ UNCHANGED <<config, time, paid>>

try_create_stream(sender, req) ==
    LET res == create_result(req, block_time(time)) IN
    /\ IF res = "Ok" THEN save_stream(new_stream(req))
                     ELSE UNCHANGED <<seq, streams>>
    /\ last' = Outcome("create", IF res = "Ok" THEN seq + 1 ELSE 0, sender,
                       recorded(req, res), res, <<>>)
    /\ UNCHANGED <<config, time, paid>>

\* A slip that validates the sender's address instead of comparing it.
unauthorized_invalid(sender) == ~addr_validate(sender)

\* if config.cw20_addr != info.sender
unauthorized(sender) == config.cw20_addr # sender

execute_receive(sender, req) ==
    IF unauthorized(sender)
    THEN /\ last' = Outcome("create", 0, sender, recorded(req, "Unauthorized"),
                            "Unauthorized", <<>>)
         /\ UNCHANGED <<config, seq, streams, time, paid>>
    ELSE try_create_stream(sender, req)

query_stream(id) == streams[id]

\* The host moves to the next block.
Tick ==
    /\ block_time(time) < MaxTime
    /\ time' = time + NANOS_PER_MILLI
    /\ last' = Outcome("tick", 0, "", NoRequest, "Ok", <<>>)
    /\ UNCHANGED <<config, seq, streams, paid>>

Receive ==
    \E p \in Parties, amount \in Amounts, start_time \in Times, end_time \in Times :
        execute_receive(p.sender,
            [owner |-> p.owner, recipient |-> p.recipient, amount |-> amount,
             start_time |-> start_time, end_time |-> end_time])

Withdraw == \E id \in 1..(seq + 1), sender \in Requesters : try_withdraw(id, sender)

\* instantiate, with msg.owner = None and info.sender = "creator".
Init ==
    /\ config = [owner |-> "creator", cw20_addr |-> "cw20"]
    /\ seq = 0
    /\ streams = <<>>
    /\ time = 0
    /\ last = [op |-> "instantiate", id |-> 0, sender |-> "creator",
               req |-> NoRequest, res |-> "Ok", msgs |-> <<>>,
               pre |-> [config |-> [owner |-> "creator", cw20_addr |-> "cw20"],
                        seq |-> 0, streams |-> <<>>]]
    /\ paid = [id \in 0..(Uint128Max + 1) |-> 0]

Next == Receive \/ Withdraw \/ Tick

Spec == Init /\ [][Next]_vars

\* ------------------------------------------------------------------------
\* The claims.  They speak of the invocation recorded in last: the block
\* time it ran at is still the current one, its stream before the
\* invocation is last.pre.streams[last.id].

now == block_time(time)

WithdrawOnStream == last.op = "withdraw" /\ last.id \in DOMAIN last.pre.streams

PreStream == last.pre.streams[last.id]

WithdrawByRecipient == WithdrawOnStream /\ last.sender = PreStream.recipient

StateUnchanged ==
    /\ streams = last.pre.streams
    /\ seq = last.pre.seq
    /\ config = last.pre.config

\* The vesting formula of the specification: linear in the window, the
\* whole deposit from end_time on.
vested_total(s, t) ==
    IF t >= s.end_time THEN s.amount
    ELSE ((t - s.start_time) * s.amount) \div (s.end_time - s.start_time)

\* C1: every stored stream has claimed_amount <= amount, and a withdraw
\* never leaves its stream's claimed_amount below the value it found.
C1_ClaimedBounded ==
    /\ \A id \in DOMAIN streams :
           streams[id].claimed_amount <= streams[id].amount
    /\ WithdrawOnStream =>
           streams[last.id].claimed_amount >= PreStream.claimed_amount

\* A withdraw by the recipient of a funded stream has succeeded.
C1_Witness ==
    /\ WithdrawByRecipient
    /\ last.res = "Ok"
    /\ PreStream.amount > 0

\* C2: inside the window (start_time <= now < end_time) a withdraw by the
\* recipient pays floor((now - start_time) * amount / (end_time -
\* start_time)) - claimed_amount and adds it to claimed_amount, so that a
\* positive vested share is paid out (half the deposit at the midpoint).
C2_LinearVesting ==
    (/\ WithdrawByRecipient
     /\ PreStream.start_time <= now
     /\ now < PreStream.end_time
     /\ vested_total(PreStream, now) > PreStream.claimed_amount)
    => LET due == vested_total(PreStream, now) - PreStream.claimed_amount IN
       /\ last.res = "Ok"
       /\ last.msgs = <<Transfer(PreStream.recipient, due)>>
       /\ streams[last.id].claimed_amount = PreStream.claimed_amount + due

\* C3: from end_time on, a withdraw by the recipient of a funded stream
\* that is not fully claimed succeeds and leaves claimed_amount = amount
\* (stated for the streams whose window is not empty).
C3_FullVesting ==
    (/\ WithdrawByRecipient
     /\ PreStream.start_time < PreStream.end_time
     /\ PreStream.amount > 0
     /\ PreStream.claimed_amount < PreStream.amount
     /\ now >= PreStream.end_time)
    => /\ last.res = "Ok"
       /\ streams[last.id].claimed_amount = PreStream.amount

\* C4: a withdraw by the recipient of a stream that is not fully claimed is
\* rejected with StreamNotStarted, state unchanged, when now < start_time,
\* and is not rejected with StreamNotStarted when now >= start_time.
C4_NotStarted ==
    (/\ WithdrawByRecipient
     /\ PreStream.claimed_amount < PreStream.amount)
    => /\ now < PreStream.start_time =>
              (last.res = "StreamNotStarted" /\ StateUnchanged)
       /\ now >= PreStream.start_time => last.res # "StreamNotStarted"

\* C5: a withdraw whose claimable amount is 0 fails with NoFundsToClaim and
\* emits no transfer; every successful withdraw transfers a positive amount.
C5_NoFundsToClaim ==
    /\ (/\ WithdrawByRecipient
        /\ ~fully_claimed(PreStream)
        /\ ~stream_not_started(PreStream, now)
        /\ claimable_amount(PreStream, now) = 0)
       => (last.res = "NoFundsToClaim" /\ last.msgs = <<>>)
    /\ (last.op = "withdraw" /\ last.res = "Ok")
       => (Len(last.msgs) = 1 /\ last.msgs[1].amount > 0)

\* C6: the stored identifiers are exactly 1..counter, the counter is the
\* number of stored streams, and a successful creation stores its record
\* under the next identifier, which held no stream; nothing else moves the
\* counter.
C6_SequentialIds ==
    /\ DOMAIN streams = 1..seq
    /\ Cardinality(DOMAIN streams) = seq
    /\ (last.op = "create" /\ last.res = "Ok")
       => /\ last.id = last.pre.seq + 1
          /\ seq = last.id
          /\ last.id \notin DOMAIN last.pre.streams
          /\ DOMAIN streams = DOMAIN last.pre.streams \cup {last.id}
    /\ ~(last.op = "create" /\ last.res = "Ok")
       => (seq = last.pre.seq /\ DOMAIN streams = DOMAIN last.pre.streams)

\* The second creation has succeeded.
C6_Witness ==
    /\ last.op = "create"
    /\ last.res = "Ok"
    /\ last.id = 2
    /\ seq = 2

\* C7: a creation request with start_time > end_time or start_time < now
\* fails, and the ledger and the counter are as before the request.
C7_CreationRejected ==
    (/\ last.op = "create"
     /\ \/ last.req.start_time > last.req.end_time
        \/ last.req.start_time < now)
    => /\ last.res # "Ok"
       /\ streams = last.pre.streams
       /\ seq = last.pre.seq

\* The token contract's notification of a stream that starts in the past,
\* with a window that is otherwise in order, has been rejected.
C7_Witness ==
    /\ last.op = "create"
    /\ last.sender = config.cw20_addr
    /\ last.req.start_time < now
    /\ last.req.start_time < last.req.end_time
    /\ last.req.end_time >= now
    /\ last.res = "InvalidStartTime"

\* C8: every stored stream has end_time > start_time (a creation with
\* start_time = end_time is rejected), so no withdraw divides by zero.
C8_PositiveWindow ==
    /\ \A id \in DOMAIN streams :
           streams[id].end_time > streams[id].start_time
    /\ (last.op = "create" /\ last.req.start_time = last.req.end_time)
       => last.res # "Ok"
    /\ (WithdrawByRecipient /\ last.res = "Panic")
       => PreStream.end_time # PreStream.start_time

\* C9: a notification from the configured token contract with
\* now <= start_time < end_time and well-formed owner and recipient, while
\* the counter is below the top of its type, succeeds; get_stream(previous
\* counter + 1) then returns the owner, recipient, amount and window of the
\* notification with claimed_amount = 0, and no message is emitted.
C9_CreateStores ==
    (/\ last.op = "create"
     /\ last.sender = last.pre.config.cw20_addr
     /\ now <= last.req.start_time
     /\ last.req.start_time < last.req.end_time
     /\ last.req.owner \in ValidAddrs
     /\ last.req.recipient \in ValidAddrs
     /\ last.pre.seq < Uint128Max)
    => /\ last.res = "Ok"
       /\ last.pre.seq + 1 \in DOMAIN streams
       /\ query_stream(last.pre.seq + 1) =
              [owner |-> last.req.owner, recipient |-> last.req.recipient,
               amount |-> last.req.amount, claimed_amount |-> 0,
               start_time |-> last.req.start_time,
               end_time |-> last.req.end_time]
       /\ last.msgs = <<>>

\* A notification with a deposit and a proper window has created a stream.
C9_Witness ==
    /\ last.op = "create"
    /\ last.res = "Ok"
    /\ last.req.amount > 0
    /\ now <= last.req.start_time
    /\ last.req.start_time < last.req.end_time

\* C10: a withdraw on a stored stream by anyone but its recipient fails
\* with NotStreamRecipient, leaves the persisted state as it was and emits
\* no transfer.
C10_NotRecipient ==
    (WithdrawOnStream /\ last.sender # PreStream.recipient)
    => /\ last.res = "NotStreamRecipient"
       /\ StateUnchanged
       /\ last.msgs = <<>>

\* The depositor of a funded stream has asked for a withdraw at its start,
\* where the recipient's withdraw is accepted.
C10_Witness ==
    /\ WithdrawOnStream
    /\ last.sender = PreStream.owner
    /\ last.sender # PreStream.recipient
    /\ PreStream.amount > 0
    /\ now = PreStream.start_time
    /\ PreStream.start_time < PreStream.end_time
    /\ last.res = "NotStreamRecipient"

\* C11: a deposit notification whose sender is not the configured token
\* contract fails with Unauthorized, whatever its creation parameters, and
\* leaves the ledger and the counter as they were.
C11_Unauthorized ==
    (last.op = "create" /\ last.sender # last.pre.config.cw20_addr)
    => /\ last.res = "Unauthorized"
       /\ streams = last.pre.streams
       /\ seq = last.pre.seq
       /\ last.msgs = <<>>

\* A notification that the token contract itself would have had accepted
\* has been sent by another account.
C11_Witness ==
    /\ last.op = "create"
    /\ last.sender # config.cw20_addr
    /\ now <= last.req.start_time
    /\ last.req.start_time < last.req.end_time
    /\ last.req.owner \in ValidAddrs
    /\ last.req.recipient \in ValidAddrs
    /\ seq < Uint128Max
    /\ last.res = "Unauthorized"

\* C12: fully claimed is absorbing.  A stream with claimed_amount >= amount
\* stays so, and a withdraw on it by its recipient, at any block time, fails
\* with StreamFullyClaimed, changes no state and emits no transfer.
C12_FullyClaimedAbsorbing ==
    /\ \A id \in DOMAIN last.pre.streams :
           last.pre.streams[id].claimed_amount >= last.pre.streams[id].amount
           => /\ id \in DOMAIN streams
              /\ streams[id].claimed_amount >= streams[id].amount
    /\ (/\ WithdrawByRecipient
        /\ PreStream.claimed_amount >= PreStream.amount)
       => /\ last.res = "StreamFullyClaimed"
          /\ StateUnchanged
          /\ last.msgs = <<>>

\* The recipient has asked for a withdraw on a fully claimed stream in a
\* block that lies inside its window, after the block that created it.
C12_Witness ==
    /\ WithdrawByRecipient
    /\ PreStream.claimed_amount >= PreStream.amount
    /\ PreStream.start_time < now
    /\ now < PreStream.end_time
    /\ last.res = "StreamFullyClaimed"

\* C13, as stated: a creation request of the token contract with
\* start_time > end_time fails with InvalidWindow, an error distinct from
\* the InvalidStartTime of start_time < now.
C13_InvalidWindow ==
    (/\ last.op = "create"
     /\ last.sender = last.pre.config.cw20_addr
     /\ last.req.start_time > last.req.end_time)
    => last.res = "InvalidWindow"

\* C13, as amended: a creation request of the token contract with
\* start_time > end_time fails with InvalidStartTime, the error that
\* start_time < now yields as well, whatever the addresses and the counter.
C13_InvalidStartTime ==
    (/\ last.op = "create"
     /\ last.sender = last.pre.config.cw20_addr
     /\ \/ last.req.start_time > last.req.end_time
        \/ last.req.start_time < now)
    => last.res = "InvalidStartTime"

\* A request whose window is inverted and whose start is not in the past
\* has been rejected.
C13_Witness ==
    /\ last.op = "create"
    /\ last.sender = config.cw20_addr
    /\ last.req.start_time > last.req.end_time
    /\ last.req.start_time >= now
    /\ last.res = "InvalidStartTime"

\* C14: a creation or a withdraw that does not succeed has written nothing:
\* the ledger, the counter and the Config are as before the invocation,
\* and no transfer is emitted.
C14_ErrorWritesNothing ==
    (last.op \in {"create", "withdraw"} /\ last.res # "Ok")
    => (StateUnchanged /\ last.msgs = <<>>)

\* With a stream in the ledger, the token contract's notification has
\* passed the window and start-time checks and failed on its recipient.
C14_Witness ==
    /\ last.op = "create"
    /\ last.sender = config.cw20_addr
    /\ last.req.recipient = BadAddr
    /\ last.res = "GenericErr"
    /\ seq = 1

\* C15: a successful withdraw changes nothing but the claimed_amount of its
\* stream; a successful creation changes nothing but the counter and the
\* new ledger entry.  The Config is left alone by both.
C15_Frame ==
    /\ (last.op = "withdraw" /\ last.res = "Ok")
       => /\ last.id \in DOMAIN last.pre.streams
          /\ streams = [last.pre.streams EXCEPT
                           ![last.id].claimed_amount =
                               streams[last.id].claimed_amount]
          /\ seq = last.pre.seq
          /\ config = last.pre.config
    /\ (last.op = "create" /\ last.res = "Ok")
       => /\ \A k \in DOMAIN last.pre.streams :
                 k \in DOMAIN streams /\ streams[k] = last.pre.streams[k]
          /\ DOMAIN streams \ DOMAIN last.pre.streams = {last.id}
          /\ config = last.pre.config

\* A second stream, different from the first, has been created.
C15_Witness ==
    /\ last.op = "create"
    /\ last.res = "Ok"
    /\ DOMAIN last.pre.streams = {1}
    /\ last.id = 2
    /\ streams[2] # streams[1]
    /\ streams[1] = last.pre.streams[1]

\* C16: the ledger is append-only.  An identifier that holds a stream keeps
\* holding it, with the same owner, recipient, amount and window, after
\* every invocation, and a creation stores under an identifier that held
\* no stream.
C16_AppendOnly ==
    /\ \A id \in DOMAIN last.pre.streams :
           /\ id \in DOMAIN streams
           /\ query_stream(id).owner = last.pre.streams[id].owner
           /\ query_stream(id).recipient = last.pre.streams[id].recipient
           /\ query_stream(id).amount = last.pre.streams[id].amount
           /\ query_stream(id).start_time = last.pre.streams[id].start_time
           /\ query_stream(id).end_time = last.pre.streams[id].end_time
    /\ (last.op = "create" /\ last.res = "Ok")
       => last.id \notin DOMAIN last.pre.streams

\* The first stream is fully claimed and still in the ledger after a second
\* creation and a further withdraw request on it.
C16_Witness ==
    /\ WithdrawByRecipient
    /\ last.id = 1
    /\ seq = 2
    /\ last.res = "StreamFullyClaimed"
    /\ 1 \in DOMAIN streams
    /\ query_stream(1) = PreStream

\* C17: a successful withdraw emits exactly one transfer, to the stream's
\* recipient, of the amount by which claimed_amount grew in that step; so
\* the transfers emitted for a stream add up to its claimed_amount and
\* never exceed its deposit.
C17_TransfersMatchClaims ==
    /\ (last.op = "withdraw" /\ last.res = "Ok")
       => /\ last.id \in DOMAIN last.pre.streams
          /\ Len(last.msgs) = 1
          /\ last.msgs[1].recipient = PreStream.recipient
          /\ last.msgs[1].amount =
                 streams[last.id].claimed_amount - PreStream.claimed_amount
    /\ \A id \in DOMAIN streams :
           /\ paid[id] = streams[id].claimed_amount
           /\ paid[id] <= streams[id].amount

\* The recipient of a funded stream has withdrawn twice in one block; each
\* withdraw emitted its one transfer.
C17_Witness ==
    /\ WithdrawByRecipient
    /\ last.res = "Ok"
    /\ PreStream.amount > 0
    /\ last.msgs = <<Transfer(PreStream.recipient, 0)>>
    /\ last.pre.streams = streams
    /\ seq = 2

\* C18: withdraw checks in the order not found, NotStreamRecipient,
\* StreamFullyClaimed, StreamNotStarted, NoFundsToClaim, and the first
\* failing check decides the error: an unknown identifier is not found
\* whoever asks; on a known stream a requester other than the recipient gets
\* NotStreamRecipient whatever the stream's amounts and times; the recipient
\* of a fully claimed stream gets StreamFullyClaimed whatever the time; and
\* every later outcome implies the earlier checks passed.
C18_CheckOrder ==
    last.op = "withdraw" =>
        /\ last.id \notin DOMAIN last.pre.streams => last.res = "NotFound"
        /\ (WithdrawOnStream /\ last.sender # PreStream.recipient)
           => last.res = "NotStreamRecipient"
        /\ (WithdrawByRecipient
              /\ PreStream.claimed_amount >= PreStream.amount)
           => last.res = "StreamFullyClaimed"
        /\ last.res \in {"StreamNotStarted", "NoFundsToClaim", "Panic", "Ok"}
           => /\ WithdrawByRecipient
              /\ PreStream.claimed_amount < PreStream.amount
        /\ last.res = "StreamFullyClaimed" => WithdrawByRecipient
        /\ last.res = "NotStreamRecipient" => WithdrawOnStream

\* A requester other than the recipient asked for a stream that is fully
\* claimed and whose start check would fail as well; the answer is
\* NotStreamRecipient.
C18_Witness ==
    /\ WithdrawOnStream
    /\ last.sender # PreStream.recipient
    /\ PreStream.claimed_amount >= PreStream.amount
    /\ stream_not_started(PreStream, now)
    /\ last.res = "NotStreamRecipient"

\* C19: the counter never passes the maximum of its type, and a creation
\* that finds it at the maximum fails: the counter, the ledger and the
\* Config are unchanged, so no identifier is reused and no record is
\* overwritten; a request that passes every other check fails with the
\* overflow error of the increment.
C19_CounterOverflow ==
    /\ seq <= Uint128Max
    /\ (last.op = "create" /\ last.pre.seq = Uint128Max)
       => /\ last.res # "Ok"
          /\ StateUnchanged
          /\ \A id \in DOMAIN last.pre.streams :
                 id \in DOMAIN streams /\ streams[id] = last.pre.streams[id]
          /\ (/\ last.sender = config.cw20_addr
              /\ last.req.start_time <= last.req.end_time
              /\ last.req.start_time >= now
              /\ addr_validate(last.req.owner)
              /\ addr_validate(last.req.recipient))
             => last.res = "Overflow"

\* With the counter at its maximum, the token contract's notification of a
\* well-formed request was rejected with the overflow error.
C19_Witness ==
    /\ last.op = "create"
    /\ last.pre.seq = Uint128Max
    /\ last.sender = config.cw20_addr
    /\ last.res = "Overflow"
    /\ seq = Uint128Max
    /\ DOMAIN streams = 1..Uint128Max
====
